---- MODULE Spec2Model ----
(***************************************************************************)
(* Model of app.py (MRI safety form: web fill and PDF production).        *)
(*                                                                         *)
(* Every Streamlit interaction re-runs the script top to bottom.  A        *)
(* session is one browser session running the script; sessions share the   *)
(* template directory, responses.csv and the output directory.            *)
(*                                                                         *)
(* A python str is modelled as the sequence of its Unicode code points, so *)
(* that lower(), substring tests, len() and the CSV round trip are         *)
(* computed and not assumed.                                               *)
(*                                                                         *)
(* A script run is cut into steps at its file operations (exists, read,    *)
(* write), the points where another session's run can interleave.  A file  *)
(* write is one step: the window in which a file being rewritten is        *)
(* truncated is not modelled.                                              *)
(***************************************************************************)
EXTENDS Integers, Sequences, FiniteSets, TLC

(***************************************************************************)
(* Bounds of the model                                                     *)
(***************************************************************************)
\* interactions (script runs) each session performs
MaxRuns == 2
\* seconds the wall clock advances while the runs last (0: all within one second)
MaxClock == 0
\* highest page index the operator enters in the number_input (code: 10)
MaxSamplePage == 1
\* highest value the operator picks on the min_chars slider (code: 10)
MaxMinChars == 3

(***************************************************************************)
(* Text helpers                                                            *)
(***************************************************************************)
\* str.lower() on one code point: ASCII A-Z, Greek capitals, accented Greek capitals
Lower(c) ==
    IF c \in 65..90 THEN c + 32
    ELSE IF c \in (913..939) \ {930} THEN c + 32
    ELSE IF c = 902 THEN 940
    ELSE IF c \in 904..906 THEN c + 37
    ELSE IF c = 908 THEN 972
    ELSE IF c \in 910..911 THEN c + 63
    ELSE c

LowerText(t) == [i \in 1..Len(t) |-> Lower(t[i])]

\* python `k in t` on strings
Contains(k, t) == \E i \in 0..(Len(t) - Len(k)) : SubSeq(t, i + 1, i + Len(k)) = k

\* python any(k in t for k in ks)
AnyIn(ks, t) == \E k \in ks : Contains(k, t)

\* str.endswith
EndsWith(t, suf) == Len(t) >= Len(suf) /\ SubSeq(t, Len(t) - Len(suf) + 1, Len(t)) = suf

IsSpace(c) == c \in {9, 10, 13, 32}

RECURSIVE LStrip(_)
LStrip(t) == IF t # <<>> /\ IsSpace(Head(t)) THEN LStrip(Tail(t)) ELSE t

RECURSIVE RStrip(_)
RStrip(t) == IF t # <<>> /\ IsSpace(t[Len(t)]) THEN RStrip(SubSeq(t, 1, Len(t) - 1)) ELSE t

\* str.strip()
Strip(t) == RStrip(LStrip(t))

\* str(n) for a natural number
RECURSIVE Digits(_)
Digits(n) == IF n < 10 THEN <<48 + n>> ELSE Digits(n \div 10) \o <<48 + (n % 10)>>

IsDigit(c) == c \in 48..57

Min(a, b) == IF a < b THEN a ELSE b

\* the elements of a sequence
Range(f) == {f[i] : i \in DOMAIN f}

(***************************************************************************)
(* String literals of the program                                          *)
(***************************************************************************)
DotPdf == <<46, 112, 100, 102>>                                   \* ".pdf"
FormCol == <<70, 111, 114, 109>>                                  \* "Form"
TimestampCol == <<84, 105, 109, 101, 115, 116, 97, 109, 112>>     \* "Timestamp"
FieldPrefix == <<102, 105, 101, 108, 100, 95>>                    \* "field_"
OverlayPrefix == <<111, 118, 101, 114, 108, 97, 121, 95, 112, 97, 103, 101, 95>> \* "overlay_page_"
FilledPrefix == <<102, 105, 108, 108, 101, 100, 95>>              \* "filled_"
TrueText == <<84, 114, 117, 101>>                                 \* "True"
FalseText == <<70, 97, 108, 115, 101>>                            \* "False"
YesText == <<89, 101, 115>>                                       \* "Yes"
NoText == <<78, 111>>                                             \* "No"

\* structural-path keywords (lines 193-199)
AcroDateWords == { <<951, 956, 949, 961, 959, 956, 951, 957>>,    \* "ημερομην"
                   <<100, 97, 116, 101>> }                        \* "date"
AcroAgeWords == { <<951, 955, 953, 954>>,                         \* "ηλικ"
                  <<97, 103, 101>>,                               \* "age"
                  <<946, 940, 961, 959, 962>> }                   \* "βάρος"
AcroGenderWords == { <<966, 973, 955, 959>>,                      \* "φύλο"
                     <<945, 961, 961, 949, 957>>,                 \* "αρρεν"
                     <<952, 942, 955, 965>> }                     \* "θήλυ"
AcroBoolWords == { <<99, 104, 101, 99, 107>>,                     \* "check"
                   <<97, 103, 114, 101, 101>>,                    \* "agree"
                   <<957, 945, 953>>,                             \* "ναι"
                   <<972, 967, 953>> }                            \* "όχι"

\* layout-path keywords (lines 242-246)
LabelBoolWords == { <<957, 945, 953>>,                            \* "ναι"
                    <<972, 967, 953>>,                            \* "όχι"
                    <<99, 104, 101, 99, 107>>,                    \* "check"
                    <<10004>>,                                    \* U+2714 check mark
                    <<9633>>,                                     \* U+25A1 white square
                    <<61554>> }                                   \* U+F072 (symbol-font box)
LabelDateWords == { <<951, 956, 949, 961>>,                       \* "ημερ"
                    <<100, 97, 116, 101>>,                        \* "date"
                    <<947, 949, 957, 957>> }                      \* "γενν"
LabelAgeWords == { <<951, 955, 953, 954>>,                        \* "ηλικ"
                   <<946, 940, 961, 959, 962>>,                   \* "βάρος"
                   <<973, 968, 959, 962>>,                        \* "ύψος"
                   <<964, 951, 955>> }                            \* "τηλ"

\* labels never turned into a field (line 229)
StopList == { <<963, 949, 955, 943, 948, 945>>,                   \* "σελίδα"
              <<963, 967, 949, 964, 953, 954, 940>>,              \* "σχετικά"
              <<116, 101, 108>>,                                  \* "tel"
              <<964, 951, 955>>,                                  \* "τηλ"
              <<102, 97, 120>> }                                  \* "fax"

\* options of the gender selectbox (line 198): "", "Άρρεν", "Θήλυ", "Άλλο"
GenderOptions == { <<>>, <<902, 961, 961, 949, 957>>, <<920, 942, 955, 965>>,
                   <<902, 955, 955, 959>> }

(***************************************************************************)
(* The files the template directory can hold.  A file is described by what *)
(* the PDF libraries do with it:                                           *)
(*   probe     how pdfrw answers try_get_acrofields                        *)
(*   fields    the field names get_fields() returns (probe = "dict")       *)
(*   plumber   whether pdfplumber.open succeeds                            *)
(*   reader    whether pdfrw's PdfReader(path) succeeds                    *)
(*   pages     per page: height, MediaBox (<<>> when unreadable), the      *)
(*             words extract_words() yields (or that it raises), and the   *)
(*             page's annotations                                          *)
(***************************************************************************)
NameA == <<97, 46, 112, 100, 102>>                                \* "a.pdf"
NameB == <<98, 46, 80, 68, 70>>                                   \* "b.PDF"
NameC == <<99, 46, 112, 100, 102>>                                \* "c.pdf"
NameD == <<100, 46, 112, 100, 102>>                               \* "d.pdf"
NameE == <<101, 46, 112, 100, 102>>                               \* "e.pdf"
NameNotes == <<110, 111, 116, 101, 115, 46, 116, 120, 116>>       \* "notes.txt"

Word(text, x0, x1, top, bottom) ==
    [text |-> text, x0 |-> x0, x1 |-> x1, top |-> top, bottom |-> bottom]

Annot(subtype, t) == [Subtype |-> subtype, T |-> t]

WordGender == <<934, 973, 955, 959>>                              \* "Φύλο"
WordYes == <<925, 945, 953>>                                      \* "Ναι"
WordPage == <<931, 949, 955, 943, 948, 945>>                      \* "Σελίδα"
WordOk == <<111, 107>>                                            \* "ok"
WordDateCheck == <<68, 97, 116, 101, 47, 99, 104, 101, 99, 107>>  \* "Date/check"
FieldAgree == <<97, 103, 114, 101, 101>>                          \* "agree"
FieldCheckDate == <<67, 104, 101, 99, 107, 45, 100, 97, 116, 101>> \* "Check-date"

\* the PDF string "(name)" pdfrw gives as an annotation's /T
Paren(t) == <<40>> \o t \o <<41>>

NoPages == <<>>

TemplateFile(name) ==
    CASE name = NameA ->
           \* a form with native fields
           [probe |-> "dict", fields |-> <<FieldAgree, FieldCheckDate>>,
            plumber |-> "ok", reader |-> "ok",
            pages |-> << [height |-> 800, mediabox |-> <<0, 0, 600, 800>>,
                          extract |-> "ok", words |-> <<>>,
                          annots |-> << Annot("/Widget", Paren(FieldAgree)),
                                        Annot("/Link", <<>>),
                                        Annot("/Widget", Paren(FieldCheckDate)) >>] >>]
      [] name = NameB ->
           \* no form dictionary; page 0 has text, page 1 cannot be extracted
           [probe |-> "no_acroform", fields |-> <<>>,
            plumber |-> "ok", reader |-> "ok",
            pages |-> << [height |-> 800, mediabox |-> <<0, 0, 600, 800>>,
                          extract |-> "ok",
                          words |-> << Word(WordGender, 10, 30, 100, 120),
                                       Word(WordYes, 40, 60, 100, 120),
                                       Word(WordPage, 10, 50, 780, 790),
                                       Word(WordOk, 70, 80, 100, 120) >>,
                          annots |-> <<>>],
                         [height |-> 800, mediabox |-> <<0, 0, 600, 800>>,
                          extract |-> "raises", words |-> <<>>, annots |-> <<>>] >>]
      [] name = NameC ->
           \* not a PDF at all: every library fails to open it
           [probe |-> "open_raises", fields |-> <<>>,
            plumber |-> "raises", reader |-> "raises", pages |-> NoPages]
      [] name = NameD ->
           \* get_fields is not available; one page with an unreadable MediaBox
           [probe |-> "get_fields_raises", fields |-> <<>>,
            plumber |-> "ok", reader |-> "ok",
            pages |-> << [height |-> 792, mediabox |-> <<>>,
                          extract |-> "ok",
                          words |-> << Word(WordDateCheck, 100, 140, 50, 60) >>,
                          annots |-> <<>>] >>]
      [] name = NameE ->
           \* an empty field dictionary; a page without text
           [probe |-> "dict", fields |-> <<>>,
            plumber |-> "ok", reader |-> "ok",
            pages |-> << [height |-> 792, mediabox |-> <<0, 0, 612, 792>>,
                          extract |-> "ok", words |-> <<>>, annots |-> <<>>] >>]
      [] OTHER ->
           [probe |-> "open_raises", fields |-> <<>>,
            plumber |-> "raises", reader |-> "raises", pages |-> NoPages]

\* the directory listings the program may be started on (os.listdir order)
Directories ==
    { <<>>,
      <<NameNotes>>,
      <<NameA, NameB, NameNotes, NameC, NameD, NameE>> }

(***************************************************************************)
(* Program constants                                                       *)
(***************************************************************************)
MinCharsLo == 2          \* lowest value of the min_chars slider
MinLabelLen == 3         \* len(t) >= 3 when choosing labels
MaxFields == 60          \* chosen[:60]
PlacementOffset == 20    \* x = x_mid + 20
DefaultFontSize == 11
LetterWidth == 612       \* reportlab.lib.pagesizes.letter
LetterHeight == 792

(***************************************************************************)
(* utils                                                                   *)
(***************************************************************************)
\* list_templates without the extension test
list_templates_unfiltered(folder) == folder

\* [f for f in os.listdir(folder) if f.lower().endswith(".pdf")]
list_templates(folder) == SelectSeq(folder, LAMBDA f : EndsWith(LowerText(f), DotPdf))

\* What try_get_acrofields returns: None, or the dict of fields (its keys in order).
\* `raised` is an exception leaving the function.
NoneAcro == [raised |-> FALSE, none |-> TRUE, keys |-> <<>>]

\* try_get_acrofields without the outer except
try_get_acrofields_uncaught(pdf_path) ==
    LET f == TemplateFile(pdf_path) IN
    IF f.probe \in {"open_raises", "no_acroform"}
    THEN [raised |-> TRUE, none |-> TRUE, keys |-> <<>>]
    ELSE IF f.probe = "get_fields_raises" THEN NoneAcro
    ELSE [raised |-> FALSE, none |-> FALSE, keys |-> f.fields]

try_get_acrofields(pdf_path) ==
    LET f == TemplateFile(pdf_path) IN
    IF f.probe = "open_raises" THEN NoneAcro             \* PdfReader raises: outer except
    ELSE IF f.probe = "no_acroform" THEN NoneAcro        \* Root.AcroForm.Fields raises: outer except
    ELSE IF f.probe = "get_fields_raises" THEN NoneAcro  \* inner except
    ELSE [raised |-> FALSE, none |-> FALSE, keys |-> f.fields]

\* bool(acro)
Truthy(acro) == ~acro.none /\ acro.keys # <<>>

\* one entry of the list extract_labels_positions returns
Label(w, page_no, page) ==
    [text |-> Strip(w.text),
     x_mid |-> (w.x0 + w.x1) \div 2,
     y_mid |-> page.height - ((w.top + w.bottom) \div 2),
     x0 |-> w.x0, x1 |-> w.x1, top |-> w.top, bottom |-> w.bottom,
     page_num |-> page_no, page_height |-> page.height]

\* extract_labels_positions without the range test: pdf.pages[page_no] raises
extract_labels_positions_unchecked(pdf_path, page_no, min_chars) ==
    LET f == TemplateFile(pdf_path) IN
    IF f.plumber = "raises" THEN [raised |-> TRUE, labels |-> <<>>]
    ELSE IF page_no < 0 \/ page_no >= Len(f.pages) THEN [raised |-> TRUE, labels |-> <<>>]
    ELSE LET page == f.pages[page_no + 1] IN
         IF page.extract = "raises" THEN [raised |-> TRUE, labels |-> <<>>]
         ELSE LET kept == SelectSeq(page.words, LAMBDA w : Len(Strip(w.text)) >= min_chars)
              IN  [raised |-> FALSE,
                   labels |-> [i \in 1..Len(kept) |-> Label(kept[i], page_no, page)]]

\* The result of extract_labels_positions: the labels, or an exception leaving it.
extract_labels_positions(pdf_path, page_no, min_chars) ==
    LET f == TemplateFile(pdf_path) IN
    IF f.plumber = "raises" THEN [raised |-> TRUE, labels |-> <<>>]
    ELSE IF page_no < 0 \/ page_no >= Len(f.pages) THEN [raised |-> FALSE, labels |-> <<>>]
    ELSE LET page == f.pages[page_no + 1] IN
         IF page.extract = "raises" THEN [raised |-> TRUE, labels |-> <<>>]
         ELSE LET kept == SelectSeq(page.words, LAMBDA w : Len(Strip(w.text)) >= min_chars)
              IN  [raised |-> FALSE,
                   labels |-> [i \in 1..Len(kept) |-> Label(kept[i], page_no, page)]]

(***************************************************************************)
(* Form building                                                           *)
(***************************************************************************)
\* structural path: the widget for a field name (lines 192-202)
ClassifyAcro(name) ==
    LET low == LowerText(name) IN
    IF AnyIn(AcroDateWords, low) THEN "date_input"
    ELSE IF AnyIn(AcroAgeWords, low) THEN "text_input"
    ELSE IF AnyIn(AcroGenderWords, low) THEN "selectbox"
    ELSE IF AnyIn(AcroBoolWords, low) THEN "checkbox"
    ELSE "text_area"

\* layout path: the widget for a label (lines 241-249)
ClassifyLabel(label_text) ==
    LET low == LowerText(label_text) IN
    IF AnyIn(LabelBoolWords, low) THEN "checkbox"
    ELSE IF AnyIn(LabelDateWords, low) THEN "date_input"
    ELSE IF AnyIn(LabelAgeWords, low) THEN "text_input"
    ELSE "text_area"

\* labels turned into fields (lines 225-232)
Chosen(labels) ==
    LET ok == SelectSeq(labels, LAMBDA l : /\ Len(l.text) >= MinLabelLen
                                           /\ LowerText(l.text) \notin StopList)
    IN  SubSeq(ok, 1, Min(Len(ok), MaxFields))

\* f"field_{idx}"
FieldKey(idx) == FieldPrefix \o Digits(idx)

\* the default placement of chosen label l, the idx-th (lines 252-265)
Placement(idx, l) ==
    [field |-> FieldKey(idx), label |-> l.text,
     x |-> l.x_mid + PlacementOffset, y |-> l.y_mid,
     fontsize |-> DefaultFontSize, align |-> "left"]

\* placements: page_num -> list of placements, built by setdefault(...).append(...)
Placements(chosen) ==
    [p \in {chosen[i].page_num : i \in DOMAIN chosen} |->
        LET idxs == SelectSeq([i \in 1..Len(chosen) |-> i],
                              LAMBDA i : chosen[i].page_num = p)
        IN  [j \in 1..Len(idxs) |-> Placement(idxs[j] - 1, chosen[idxs[j]])]]

\* A python value is [k |-> its type, t |-> str(value)].
Str(t) == [k |-> "str", t |-> t]
Bool(b) == [k |-> "bool", t |-> IF b THEN TrueText ELSE FalseText]
NaN == [k |-> "nan", t |-> <<>>]

\* what the operator may type into a text widget: "" or "07"
TextAnswers == { <<>>, <<48, 55>> }

\* the values a widget can return
Answers(widget) ==
    IF widget = "checkbox" THEN {Bool(TRUE), Bool(FALSE)}
    ELSE IF widget = "selectbox" THEN {Str(t) : t \in GenderOptions}
    ELSE {Str(t) : t \in TextAnswers}

\* every way the operator can fill the form whose widgets are `widgets` (key -> kind)
Fillings(widgets) ==
    {r \in [DOMAIN widgets -> UNION {Answers(widgets[k]) : k \in DOMAIN widgets}] :
        \A k \in DOMAIN widgets : r[k] \in Answers(widgets[k])}

\* datetime.now().strftime("%Y-%m-%d %H:%M:%S") at second `now` of the check
Strftime(now) ==
    <<50, 48, 50, 53, 45, 48, 49, 45, 48, 49, 32, 48, 48, 58, 48, 48, 58, 48>> \o Digits(now)

(***************************************************************************)
(* responses.csv through pandas                                            *)
(*                                                                         *)
(* The file is [exists, cols, rows]: rows is the sequence of data lines,   *)
(* each a function from column name to the cell's text.  A DataFrame is    *)
(* [cols, rows] with python values in the cells.                           *)
(***************************************************************************)
NoFile == [exists |-> FALSE, cols |-> {}, rows |-> <<>>]

\* cell texts read_csv takes for a missing value (a part of pandas' default list)
NAValues == { <<>>, <<78, 65>>, <<78, 47, 65>>, <<78, 97, 78>>, <<110, 97, 110>>,
              <<78, 85, 76, 76>>, <<110, 117, 108, 108>>, <<78, 111, 110, 101>> }

\* cell texts read_csv takes for booleans
TrueTexts == { TrueText, <<84, 82, 85, 69>>, <<116, 114, 117, 101>> }
FalseTexts == { FalseText, <<70, 65, 76, 83, 69>>, <<102, 97, 108, 115, 101>> }

IsIntText(t) == t # <<>> /\ \A i \in DOMAIN t : IsDigit(t[i])

\* digits "." digits
IsFloatText(t) ==
    \E i \in DOMAIN t : /\ t[i] = 46
                        /\ IsIntText(SubSeq(t, 1, i - 1))
                        /\ IsIntText(SubSeq(t, i + 1, Len(t)))

RECURSIVE StripZerosLeft(_)
StripZerosLeft(t) == IF Len(t) > 1 /\ Head(t) = 48 THEN StripZerosLeft(Tail(t)) ELSE t

RECURSIVE StripZerosRight(_)
StripZerosRight(t) ==
    IF Len(t) > 1 /\ t[Len(t)] = 48 THEN StripZerosRight(SubSeq(t, 1, Len(t) - 1)) ELSE t

\* str(int(t))
IntRepr(t) == StripZerosLeft(t)

\* str(float(t)) for t an integer or a decimal text
FloatRepr(t) ==
    IF IsIntText(t) THEN IntRepr(t) \o <<46, 48>>
    ELSE LET i == CHOOSE j \in DOMAIN t : t[j] = 46
         IN  IntRepr(SubSeq(t, 1, i - 1)) \o <<46>> \o StripZerosRight(SubSeq(t, i + 1, Len(t)))

\* the texts of column c of the file
ColumnTexts(file, c) == {file.rows[i][c] : i \in DOMAIN file.rows}

\* The dtype read_csv infers for column c.
ColumnType(file, c) ==
    LET present == ColumnTexts(file, c) \ NAValues
        missing == ColumnTexts(file, c) \cap NAValues # {}
    IN  IF present = {} THEN "float64"
        ELSE IF \A t \in present : IsIntText(t) THEN (IF missing THEN "float64" ELSE "int64")
        ELSE IF \A t \in present : IsIntText(t) \/ IsFloatText(t) THEN "float64"
        ELSE IF \A t \in present : t \in TrueTexts \cup FalseTexts THEN "bool"
        ELSE "object"

\* the value read_csv gives the cell with text t in a column of dtype ty
ParseCell(ty, t) ==
    IF t \in NAValues THEN NaN
    ELSE IF ty = "int64" THEN [k |-> "int", t |-> IntRepr(t)]
    ELSE IF ty = "float64" THEN [k |-> "float", t |-> FloatRepr(t)]
    ELSE IF ty = "bool" THEN Bool(t \in TrueTexts)
    ELSE Str(t)

\* pd.read_csv(RESPONSES_CSV)
read_csv(file) ==
    [cols |-> file.cols,
     rows |-> [i \in DOMAIN file.rows |->
                 [c \in file.cols |-> ParseCell(ColumnType(file, c), file.rows[i][c])]]]

\* pd.DataFrame([record])
DataFrame(record) == [cols |-> DOMAIN record, rows |-> <<record>>]

\* A cell of `old` in the concatenated frame: a column the new frame lacks gets a
\* missing value in the new row, which turns an int64 column into float64.
Upcast(v, gains_nan) ==
    IF gains_nan /\ v.k = "int" THEN [k |-> "float", t |-> v.t \o <<46, 48>>] ELSE v

\* concat that keeps the new frame alone
concat_new_only(old, new) == new

\* pd.concat([old, new], ignore_index=True)
concat(old, new) ==
    LET cols == old.cols \cup new.cols
        OldRow(r) == [c \in cols |-> IF c \in old.cols
                                     THEN Upcast(r[c], c \notin new.cols)
                                     ELSE NaN]
        NewRow(r) == [c \in cols |-> IF c \in new.cols THEN r[c] ELSE NaN]
    IN  [cols |-> cols,
         rows |-> [i \in DOMAIN old.rows |-> OldRow(old.rows[i])]
                  \o [i \in DOMAIN new.rows |-> NewRow(new.rows[i])]]

\* df.to_csv(RESPONSES_CSV, index=False): every value written as its str()
to_csv(df) ==
    [exists |-> TRUE, cols |-> df.cols,
     rows |-> [i \in DOMAIN df.rows |-> [c \in df.cols |-> df.rows[i][c].t]]]

(***************************************************************************)
(* PDF production                                                          *)
(*                                                                         *)
(* A PDF document is the sequence of its pages; a page is                  *)
(*   src     the template page it shows ([name |-> <<>>] for a blank page) *)
(*   size    <<width, height>>                                             *)
(*   draws   the strings drawn on it, with position and font size          *)
(*   values  the /V entries set on its widget annotations                  *)
(***************************************************************************)
Blank == [name |-> <<>>, page |-> 0]

\* page size from /MediaBox, letter when it cannot be read (lines 96-103)
PageSize(page) ==
    IF Len(page.mediabox) = 4
    THEN <<page.mediabox[3] - page.mediabox[1], page.mediabox[4] - page.mediabox[2]>>
    ELSE <<LetterWidth, LetterHeight>>

\* canvas.stringWidth: Helvetica averages about half the font size per character
StringWidth(text, fontsize) == (Len(text) * fontsize) \div 2

\* where drawString starts for an alignment (lines 120-127)
DrawX(align, x, text, fontsize) ==
    IF align = "center" THEN x - StringWidth(text, fontsize) \div 2
    ELSE IF align = "right" THEN x - StringWidth(text, fontsize)
    ELSE x

\* placements.get(page_idx, [])
PlacementsOn(placements, page_idx) ==
    IF page_idx \in DOMAIN placements THEN placements[page_idx] ELSE <<>>

\* str(responses.get(field, ""))
ResponseText(responses, field) ==
    IF field \in DOMAIN responses THEN responses[field].t ELSE <<>>

\* the one-page overlay document drawn for page page_idx (lines 94-130)
OverlayDoc(responses, placements, template_path, page_idx) ==
    LET page == TemplateFile(template_path).pages[page_idx + 1]
        ps == PlacementsOn(placements, page_idx)
    IN  << [src |-> Blank, size |-> PageSize(page),
            draws |-> [i \in DOMAIN ps |->
                         LET text == ResponseText(responses, ps[i].field)
                         IN  [text |-> text,
                              x |-> DrawX(ps[i].align, ps[i].x, text, ps[i].fontsize),
                              y |-> ps[i].y, fontsize |-> ps[i].fontsize]],
            values |-> <<>>] >>

\* os.path.join(OUTPUT_DIR, f"overlay_page_{page_idx}.pdf")
overlay_path(page_idx) == OverlayPrefix \o Digits(page_idx) \o DotPdf

\* os.path.join(OUTPUT_DIR, f"filled_{os.path.basename(template_path)}")
filled_path(template_path) == FilledPrefix \o template_path

\* PageMerge(tpage).add(overlay_page).render(): the template page under the overlay
MergedPage(template_path, i, overlay_page) ==
    [src |-> [name |-> template_path, page |-> i],
     size |-> PageSize(TemplateFile(template_path).pages[i + 1]),
     draws |-> overlay_page.draws, values |-> <<>>]

\* the value written into a field: booleans as Yes / No (lines 303-306)
FieldValue(val) ==
    Paren(IF val.k = "bool" THEN (IF val.t = TrueText THEN YesText ELSE NoText) ELSE val.t)

\* annot.T[1:-1]
AnnotKey(annot) == SubSeq(annot.T, 2, Len(annot.T) - 1)

\* the template with the responses written into its widgets (lines 296-306)
StructuralDoc(template_path, responses) ==
    LET pages == TemplateFile(template_path).pages IN
    [i \in DOMAIN pages |->
        LET hit == SelectSeq(pages[i].annots,
                             LAMBDA a : /\ a.Subtype = "/Widget" /\ a.T # <<>>
                                        /\ AnnotKey(a) \in DOMAIN responses)
        IN  [src |-> [name |-> template_path, page |-> i - 1],
             size |-> PageSize(pages[i]), draws |-> <<>>,
             values |-> [j \in DOMAIN hit |->
                           [key |-> AnnotKey(hit[j]),
                            V |-> FieldValue(responses[AnnotKey(hit[j])])]]]]

(***************************************************************************)
(* State                                                                   *)
(***************************************************************************)
Sessions == {"s1", "s2"}

VARIABLES
    templates_dir,   \* os.listdir(TEMPLATES_DIR)
    responses_csv,   \* the file responses.csv
    output_dir,      \* the files of output/: path -> PDF document
    clock,           \* wall clock, in seconds
    started,         \* script runs started so far
    pc,              \* where each session's script run stands
    loc,             \* the script's variables in each session's run
    ui,              \* what each session's run has shown to the operator
    calls            \* the components each session's run has gone through

vars == <<templates_dir, responses_csv, output_dir, clock, started, pc, loc, ui, calls>>

\* a session whose script is not running
Resting == {"idle", "done", "stopped", "crashed"}

DefaultMinChars == 3

\* the script's variables before the run assigns them
Locals ==
    [templates |-> <<>>, selected |-> <<>>, acro |-> NoneAcro, has_acro |-> FALSE,
     sample_page |-> 0, min_chars |-> DefaultMinChars, labels |-> <<>>, chosen |-> <<>>,
     widgets |-> <<>>, responses |-> <<>>, placements |-> <<>>, submitted |-> FALSE,
     flat_responses |-> <<>>, old |-> [cols |-> {}, rows |-> <<>>],
     page_idx |-> 0, overlay_paths |-> <<>>, merged |-> <<>>, out_path |-> <<>>,
     download |-> <<>>]

\* flat_responses = responses.copy(); flat_responses.update(meta)   (lines 274-276)
Flat(responses, selected, now) ==
    [c \in DOMAIN responses \cup {FormCol, TimestampCol} |->
        IF c = FormCol THEN Str(selected)
        ELSE IF c = TimestampCol THEN Str(Strftime(now))
        ELSE responses[c]]

\* the ledger an earlier submission of e.pdf (a form without fields) has left
PriorLedger == to_csv(DataFrame(Flat(<<>>, NameE, 0)))

Init ==
    /\ templates_dir \in Directories
    /\ responses_csv \in {NoFile, PriorLedger}
    /\ output_dir = <<>>
    /\ clock = 0
    /\ started = 0
    /\ pc = [s \in Sessions |-> "idle"]
    /\ loc = [s \in Sessions |-> Locals]
    /\ ui = [s \in Sessions |-> <<>>]
    /\ calls = [s \in Sessions |-> <<>>]

\* an interaction re-runs the script from its first line
CanRun(s) == pc[s] \in Resting /\ started < MaxRuns

\* The end of the form section: the run goes on to the submission handling when the
\* submit button was pressed (stamping the time), and to the admin panel otherwise.
FormDone(s, l, shown, called, submitted) ==
    IF submitted
    THEN \E now \in clock..Min(clock + 1, MaxClock) :
            /\ clock' = now
            /\ loc' = [loc EXCEPT ![s] = [l EXCEPT !.submitted = TRUE,
                           !.flat_responses = Flat(l.responses, l.selected, now)]]
            /\ ui' = [ui EXCEPT ![s] = shown \o <<"success_logging">>]
            /\ calls' = [calls EXCEPT ![s] = called]
            /\ pc' = [pc EXCEPT ![s] = "save"]
    ELSE /\ clock' = clock
         /\ loc' = [loc EXCEPT ![s] = l]
         /\ ui' = [ui EXCEPT ![s] = shown]
         /\ calls' = [calls EXCEPT ![s] = called]
         /\ pc' = [pc EXCEPT ![s] = "admin"]

\* lines 156-159: no template, st.warning and st.stop()
NoTemplates(s) ==
    /\ CanRun(s)
    /\ list_templates(templates_dir) = <<>>
    /\ started' = started + 1
    /\ loc' = [loc EXCEPT ![s] = Locals]
    /\ ui' = [ui EXCEPT ![s] = <<"warning_no_templates">>]
    /\ calls' = [calls EXCEPT ![s] = <<"list_templates">>]
    /\ pc' = [pc EXCEPT ![s] = "stopped"]
    /\ UNCHANGED <<templates_dir, responses_csv, output_dir, clock>>

\* lines 156-203: a template with native fields, the form built from their names
StructuralForm(s) ==
    /\ CanRun(s)
    /\ \E selected \in Range(list_templates(templates_dir)), submitted \in BOOLEAN :
         LET acro == try_get_acrofields(selected)
             field_names == acro.keys
             widgets == [name \in Range(field_names) |-> ClassifyAcro(name)]
         IN  /\ ~acro.raised
             /\ Truthy(acro)
             /\ \E responses \in Fillings(widgets) :
                   FormDone(s, [Locals EXCEPT
                                  !.templates = list_templates(templates_dir),
                                  !.selected = selected, !.acro = acro,
                                  !.has_acro = TRUE, !.widgets = widgets,
                                  !.responses = responses],
                            <<"success_acro">>,
                            <<"list_templates", "try_get_acrofields", "acro_form">>,
                            submitted)
    /\ started' = started + 1
    /\ UNCHANGED <<templates_dir, responses_csv, output_dir>>

\* lines 156-174, 205-210: an exception leaves try_get_acrofields or, with no native
\* fields, extract_labels_positions; nothing catches it and the run ends there
FormRaises(s) ==
    /\ CanRun(s)
    /\ \E selected \in Range(list_templates(templates_dir)),
          sample_page \in 0..MaxSamplePage, min_chars \in MinCharsLo..MaxMinChars :
         LET acro == try_get_acrofields(selected) IN
         IF acro.raised
         THEN /\ sample_page = 0
              /\ min_chars = DefaultMinChars
              /\ loc' = [loc EXCEPT ![s] = [Locals EXCEPT
                             !.templates = list_templates(templates_dir),
                             !.selected = selected]]
              /\ ui' = [ui EXCEPT ![s] = <<"exception">>]
              /\ calls' = [calls EXCEPT ![s] = <<"list_templates", "try_get_acrofields">>]
         ELSE /\ ~Truthy(acro)
              /\ extract_labels_positions(selected, sample_page, min_chars).raised
              /\ loc' = [loc EXCEPT ![s] = [Locals EXCEPT
                             !.templates = list_templates(templates_dir),
                             !.selected = selected, !.acro = acro,
                             !.sample_page = sample_page, !.min_chars = min_chars]]
              /\ ui' = [ui EXCEPT ![s] = <<"info_no_acro", "exception">>]
              /\ calls' = [calls EXCEPT ![s] = <<"list_templates", "try_get_acrofields",
                                                 "extract_labels_positions">>]
    /\ started' = started + 1
    /\ pc' = [pc EXCEPT ![s] = "crashed"]
    /\ UNCHANGED <<templates_dir, responses_csv, output_dir, clock>>

\* lines 156-174, 205-266: no native fields, the form built from the extracted labels
LayoutForm(s) ==
    /\ CanRun(s)
    /\ \E selected \in Range(list_templates(templates_dir)),
          sample_page \in 0..MaxSamplePage, min_chars \in MinCharsLo..MaxMinChars,
          submitted \in BOOLEAN :
         LET acro == try_get_acrofields(selected)
             got == extract_labels_positions(selected, sample_page, min_chars)
             chosen == Chosen(got.labels)
             widgets == [i \in 1..Len(chosen) |-> ClassifyLabel(chosen[i].text)]
             keyed == [k \in {FieldKey(i - 1) : i \in 1..Len(chosen)} |->
                         widgets[CHOOSE i \in 1..Len(chosen) : FieldKey(i - 1) = k]]
         IN  /\ ~acro.raised
             /\ ~Truthy(acro)
             /\ ~got.raised
             /\ \E responses \in Fillings(keyed) :
                   FormDone(s, [Locals EXCEPT
                                  !.templates = list_templates(templates_dir),
                                  !.selected = selected, !.acro = acro,
                                  !.sample_page = sample_page, !.min_chars = min_chars,
                                  !.labels = got.labels, !.chosen = chosen,
                                  !.widgets = keyed, !.responses = responses,
                                  !.placements = Placements(chosen)],
                            <<"info_no_acro">>,
                            <<"list_templates", "try_get_acrofields",
                              "extract_labels_positions", "label_form">>,
                            submitted)
    /\ started' = started + 1
    /\ UNCHANGED <<templates_dir, responses_csv, output_dir>>

(***************************************************************************)
(* Submission handling: the ledger                                         *)
(***************************************************************************)
Shown(s, msgs) == ui' = [ui EXCEPT ![s] = @ \o msgs]
Called(s, names) == calls' = [calls EXCEPT ![s] = @ \o names]

\* line 279: os.path.exists(RESPONSES_CSV)
CheckExists(s) ==
    /\ pc[s] = "save"
    /\ pc' = [pc EXCEPT ![s] = IF responses_csv.exists THEN "read" ELSE "create"]
    /\ UNCHANGED <<templates_dir, responses_csv, output_dir, clock, started, loc, ui, calls>>

\* line 280: old = pd.read_csv(RESPONSES_CSV)
ReadCsv(s) ==
    /\ pc[s] = "read"
    /\ loc' = [loc EXCEPT ![s].old = read_csv(responses_csv)]
    /\ Called(s, <<"read_csv">>)
    /\ pc' = [pc EXCEPT ![s] = "rewrite"]
    /\ UNCHANGED <<templates_dir, responses_csv, output_dir, clock, started, ui>>

\* RewriteCsv reading the file again at the moment it writes
RewriteCsvAtomic(s) ==
    /\ pc[s] = "rewrite"
    /\ responses_csv' = to_csv(concat(read_csv(responses_csv),
                                       DataFrame(loc[s].flat_responses)))
    /\ Called(s, <<"to_csv">>)
    /\ Shown(s, <<"info_saved", "info_generating">>)
    /\ pc' = [pc EXCEPT ![s] = "pdf"]
    /\ UNCHANGED <<templates_dir, output_dir, clock, started, loc>>

\* lines 281-283 and 287-292: the table read, with the new row, replaces the file
RewriteCsv(s) ==
    /\ pc[s] = "rewrite"
    /\ responses_csv' = to_csv(concat(loc[s].old, DataFrame(loc[s].flat_responses)))
    /\ Called(s, <<"to_csv">>)
    /\ Shown(s, <<"info_saved", "info_generating">>)
    /\ pc' = [pc EXCEPT ![s] = "pdf"]
    /\ UNCHANGED <<templates_dir, output_dir, clock, started, loc>>

\* lines 285 and 287-292: the file is created with the new row alone
CreateCsv(s) ==
    /\ pc[s] = "create"
    /\ responses_csv' = to_csv(DataFrame(loc[s].flat_responses))
    /\ Called(s, <<"to_csv">>)
    /\ Shown(s, <<"info_saved", "info_generating">>)
    /\ pc' = [pc EXCEPT ![s] = "pdf"]
    /\ UNCHANGED <<templates_dir, output_dir, clock, started, loc>>

(***************************************************************************)
(* Submission handling: the PDF                                            *)
(***************************************************************************)
\* open(path, "wb") and write: the file at `path` becomes `doc`
WriteFile(path, doc) == output_dir' = (path :> doc) @@ output_dir

\* lines 294-309: the responses written into the native fields, saved as filled_<name>
StructuralWrite(s) ==
    /\ pc[s] = "pdf"
    /\ loc[s].has_acro
    /\ LET out_path == filled_path(loc[s].selected) IN
       /\ WriteFile(out_path, StructuralDoc(loc[s].selected, loc[s].responses))
       /\ loc' = [loc EXCEPT ![s].out_path = out_path]
    /\ Called(s, <<"structural_write">>)
    /\ Shown(s, <<"success_pdf">>)
    /\ pc' = [pc EXCEPT ![s] = "download"]
    /\ UNCHANGED <<templates_dir, responses_csv, clock, started>>

\* lines 312-315 and 323: overlay mode without placements, st.error
RefuseOverlay(s) ==
    /\ pc[s] = "pdf"
    /\ ~loc[s].has_acro
    /\ DOMAIN loc[s].placements = {}
    /\ Shown(s, <<"error_no_placements", "balloons">>)
    /\ pc' = [pc EXCEPT ![s] = "admin"]
    /\ UNCHANGED <<templates_dir, responses_csv, output_dir, clock, started, loc, calls>>

\* BeginOverlay without the test of placements
BeginOverlayUnchecked(s) ==
    /\ pc[s] = "pdf"
    /\ ~loc[s].has_acro
    /\ Called(s, <<"create_overlay_pdf">>)
    /\ ui' = ui
    /\ pc' = [pc EXCEPT ![s] = "overlay"]
    /\ UNCHANGED <<templates_dir, responses_csv, output_dir, clock, started, loc>>

\* lines 316-318, 87-92: create_overlay_pdf is entered and opens the template
BeginOverlay(s) ==
    /\ pc[s] = "pdf"
    /\ ~loc[s].has_acro
    /\ DOMAIN loc[s].placements # {}
    /\ Called(s, <<"create_overlay_pdf">>)
    /\ IF TemplateFile(loc[s].selected).reader = "raises"
       THEN /\ Shown(s, <<"exception">>)
            /\ pc' = [pc EXCEPT ![s] = "crashed"]
       ELSE /\ ui' = ui
            /\ pc' = [pc EXCEPT ![s] = "overlay"]
    /\ UNCHANGED <<templates_dir, responses_csv, output_dir, clock, started, loc>>

\* len(reader.pages)
NumPages(template_path) == Len(TemplateFile(template_path).pages)

\* lines 93-134, one turn of the loop: page page_idx is drawn and written to
\* overlay_page_<page_idx>.pdf
WriteOverlayPage(s) ==
    /\ pc[s] = "overlay"
    /\ loc[s].page_idx < NumPages(loc[s].selected)
    /\ LET l == loc[s]
           path == overlay_path(l.page_idx)
       IN  /\ WriteFile(path, OverlayDoc(l.responses, l.placements, l.selected, l.page_idx))
           /\ loc' = [loc EXCEPT ![s] = [l EXCEPT
                          !.page_idx = l.page_idx + 1,
                          !.overlay_paths = Append(l.overlay_paths, path)]]
    /\ Called(s, <<"write_overlay">>)
    /\ UNCHANGED <<templates_dir, responses_csv, clock, started, pc, ui>>

\* MergePage using the overlay the session drew itself, not the file
MergePageOwn(s) ==
    /\ pc[s] = "overlay"
    /\ loc[s].page_idx >= NumPages(loc[s].selected)
    /\ Len(loc[s].merged) < NumPages(loc[s].selected)
    /\ LET l == loc[s]
           i == Len(l.merged)
       IN  loc' = [loc EXCEPT ![s].merged =
                      Append(@, MergedPage(l.selected, i,
                                OverlayDoc(l.responses, l.placements, l.selected, i)[1]))]
    /\ Called(s, <<"merge">>)
    /\ UNCHANGED <<templates_dir, responses_csv, output_dir, clock, started, pc, ui>>

\* lines 140-149, one turn of the loop: the overlay file of page i is read back and
\* merged onto the template's page
MergePage(s) ==
    /\ pc[s] = "overlay"
    /\ loc[s].page_idx >= NumPages(loc[s].selected)
    /\ Len(loc[s].merged) < NumPages(loc[s].selected)
    /\ LET l == loc[s]
           i == Len(l.merged)
           tpage == [src |-> [name |-> l.selected, page |-> i],
                     size |-> PageSize(TemplateFile(l.selected).pages[i + 1]),
                     draws |-> <<>>, values |-> <<>>]
       IN  loc' = [loc EXCEPT ![s].merged =
                      Append(@, IF i < Len(l.overlay_paths)
                                THEN MergedPage(l.selected, i,
                                                output_dir[l.overlay_paths[i + 1]][1])
                                ELSE tpage)]
    /\ Called(s, <<"merge">>)
    /\ UNCHANGED <<templates_dir, responses_csv, output_dir, clock, started, pc, ui>>

\* lines 137, 150-151, 319: the merged pages are written to filled_<name>
WriteOut(s) ==
    /\ pc[s] = "overlay"
    /\ Len(loc[s].merged) = NumPages(loc[s].selected)
    /\ LET out_path == filled_path(loc[s].selected) IN
       /\ WriteFile(out_path, loc[s].merged)
       /\ loc' = [loc EXCEPT ![s].out_path = out_path]
    /\ Called(s, <<"write_out">>)
    /\ Shown(s, <<"success_overlay">>)
    /\ pc' = [pc EXCEPT ![s] = "download"]
    /\ UNCHANGED <<templates_dir, responses_csv, clock, started>>

\* lines 310-311 / 320-321 and 323: the file at out_path is opened and offered
Download(s) ==
    /\ pc[s] = "download"
    /\ loc' = [loc EXCEPT ![s].download = output_dir[loc[s].out_path]]
    /\ Called(s, <<"download">>)
    /\ Shown(s, <<"download_button", "balloons">>)
    /\ pc' = [pc EXCEPT ![s] = "admin"]
    /\ UNCHANGED <<templates_dir, responses_csv, output_dir, clock, started>>

\* lines 328-335: the admin panel reads the ledger for display
Admin(s) ==
    /\ pc[s] = "admin"
    /\ Shown(s, <<IF responses_csv.exists THEN "admin_table" ELSE "admin_no_file">>)
    /\ pc' = [pc EXCEPT ![s] = "done"]
    /\ UNCHANGED <<templates_dir, responses_csv, output_dir, clock, started, loc, calls>>

Step(s) ==
    \/ NoTemplates(s)
    \/ FormRaises(s)
    \/ StructuralForm(s)
    \/ LayoutForm(s)
    \/ CheckExists(s)
    \/ ReadCsv(s)
    \/ RewriteCsv(s)
    \/ CreateCsv(s)
    \/ StructuralWrite(s)
    \/ RefuseOverlay(s)
    \/ BeginOverlay(s)
    \/ WriteOverlayPage(s)
    \/ MergePage(s)
    \/ WriteOut(s)
    \/ Download(s)
    \/ Admin(s)

\* sessions run concurrently: any session may take its next step
Next == \E s \in Sessions : Step(s)

Spec == Init /\ [][Next]_vars

\* interactions one after another: the runs of one session, each ended before the next
NextSeq == Step("s1")

SpecSeq == Init /\ [][NextSeq]_vars

(***************************************************************************)
(* Claims                                                                  *)
(***************************************************************************)
Has(seq, x) == \E i \in DOMAIN seq : seq[i] = x

\* the components that produce or offer a PDF
PdfCalls == {"structural_write", "create_overlay_pdf", "write_overlay", "merge",
             "write_out", "download"}

\* a run that is past the ledger write of its submission
Saved(s) == loc[s].submitted /\ Has(calls[s], "to_csv")

\* the line to_csv writes for a record
CsvRow(record) == [c \in DOMAIN record |-> record[c].t]

\* C1: a submission adds one row at the end of the ledger and leaves every earlier
\* row where it was, with the values it had.
C1_AppendOnly ==
    [][responses_csv' # responses_csv =>
         /\ Len(responses_csv'.rows) = Len(responses_csv.rows) + 1
         /\ \A i \in DOMAIN responses_csv.rows : \A c \in responses_csv.cols :
               /\ c \in responses_csv'.cols
               /\ responses_csv'.rows[i][c] = responses_csv.rows[i][c]]_vars

\* C2: once two sessions have both saved their submissions, the ledger is the table
\* one of them read before writing plus that session's row, whatever the other wrote
\* in between, and both runs report success and no exception.
C2_LastWriterWins ==
    \A s \in Sessions : \A u \in Sessions \ {s} :
        (Saved(s) /\ Saved(u)) =>
            /\ \E w \in {s, u} :
                  responses_csv = to_csv(concat(loc[w].old, DataFrame(loc[w].flat_responses)))
            /\ \A w \in {s, u} : Has(ui[w], "info_saved") /\ ~Has(ui[w], "exception")

\* C2 witness: both sessions read the ledger an earlier submission left, both saved
\* their submissions and ended without an exception, and the ledger holds the earlier
\* row and one new row, not two
C2_LostUpdate ==
    /\ \A s \in Sessions :
          /\ Saved(s) /\ pc[s] = "done" /\ ~Has(ui[s], "exception")
          /\ Has(calls[s], "read_csv")
          /\ loc[s].old = read_csv(PriorLedger)
    /\ Len(responses_csv.rows) = Len(PriorLedger.rows) + 1

\* C3: in a run with a submit, every PDF production step comes after the ledger write;
\* from that write on the ledger holds the rows read plus exactly one, the record of
\* the submission (answers, Form, Timestamp), also when the overlay is then refused;
\* a run without a submit writes no row.
C3_AppendBeforePdf ==
    \A s \in Sessions :
        LET l == loc[s] IN
        /\ \A i \in DOMAIN calls[s] :
              calls[s][i] \in PdfCalls => \E j \in 1..(i - 1) : calls[s][j] = "to_csv"
        /\ (~l.submitted) => ~Has(calls[s], "to_csv")
        /\ (l.submitted /\ pc[s] \notin {"save", "read", "rewrite", "create"}) =>
              /\ Cardinality({i \in DOMAIN calls[s] : calls[s][i] = "to_csv"}) = 1
              /\ Len(responses_csv.rows) = Len(l.old.rows) + 1
              /\ DOMAIN l.flat_responses \subseteq responses_csv.cols
              /\ DOMAIN l.responses \cup {FormCol, TimestampCol} = DOMAIN l.flat_responses
              /\ \A c \in DOMAIN l.flat_responses :
                    responses_csv.rows[Len(responses_csv.rows)][c] = CsvRow(l.flat_responses)[c]

\* C3 witness: the overlay was refused on a second submission and its row is in the ledger
C3_RefusedButLogged ==
    \E s \in Sessions :
        /\ Has(ui[s], "error_no_placements")
        /\ pc[s] = "done"
        /\ Len(responses_csv.rows) = 2
        /\ responses_csv.rows[2][FormCol] = loc[s].selected

\* C4: a submission in overlay mode without placements never enters
\* create_overlay_pdf, writes no overlay and no filled_ file, offers no download, and
\* ends with the refusal shown.
C4_MissingPlacementRefusal ==
    \A s \in Sessions :
        LET l == loc[s] IN
        (l.submitted /\ ~l.has_acro /\ DOMAIN l.placements = {}) =>
            /\ \A i \in DOMAIN calls[s] : calls[s][i] \notin PdfCalls
            /\ pc[s] \notin {"overlay", "download"}
            /\ l.overlay_paths = <<>> /\ l.out_path = <<>> /\ l.download = <<>>
            /\ ~Has(ui[s], "download_button") /\ ~Has(ui[s], "success_overlay")
            /\ pc[s] \in {"admin", "done"} => Has(ui[s], "error_no_placements")
            /\ started = 1 => output_dir = <<>>

\* C4 witness: a refused submission
C4_Refused ==
    \E s \in Sessions :
        /\ pc[s] = "done" /\ loc[s].submitted /\ ~loc[s].has_acro
        /\ loc[s].selected = NameE
        /\ Has(ui[s], "error_no_placements")
        /\ output_dir = <<>>

\* C5: with no file named *.pdf (in any case) in the directory, a run shows the warning and stops after list_templates:
\* nothing else is called, and the ledger and the output directory stay as they were
\* before the first run (the ledger absent or as left earlier, the directory empty).
C5_NoTemplatesHalts ==
    (\A f \in Range(templates_dir) : ~EndsWith(LowerText(f), DotPdf)) =>
        /\ responses_csv \in {NoFile, PriorLedger}
        /\ output_dir = <<>>
        /\ \A s \in Sessions :
              /\ pc[s] \in {"idle", "stopped"}
              /\ loc[s] = Locals
              /\ pc[s] = "stopped" =>
                    ui[s] = <<"warning_no_templates">> /\ calls[s] = <<"list_templates">>

\* C5 witness: a run stopped on a directory that holds a file, but no PDF
C5_Stopped ==
    \E s \in Sessions : pc[s] = "stopped" /\ templates_dir = <<NameNotes>> /\ started = 2

\* the template does not yield native fields: it cannot be opened, it has no form
\* dictionary, its fields cannot be extracted, or it has none
ProbeFails(name) ==
    \/ TemplateFile(name).probe \in {"open_raises", "no_acroform", "get_fields_raises"}
    \/ TemplateFile(name).fields = <<>>

\* C6: when probing the selected template for native fields fails in any way, no
\* exception leaves try_get_acrofields, its result is falsy, and the run goes on to
\* label extraction; the structural form and the structural writer are never used.
C6_DetectionDegrades ==
    \A s \in Sessions :
        (loc[s].selected # <<>> /\ ProbeFails(loc[s].selected)) =>
            /\ ~try_get_acrofields(loc[s].selected).raised
            /\ ~Truthy(loc[s].acro) /\ ~loc[s].has_acro
            /\ SubSeq(calls[s], 1, 3) =
                  <<"list_templates", "try_get_acrofields", "extract_labels_positions">>
            /\ ui[s][1] = "info_no_acro"
            /\ ~Has(calls[s], "acro_form") /\ ~Has(calls[s], "structural_write")
            /\ pc[s] = "download" => Has(calls[s], "write_out")

\* C6 witness: a template whose fields cannot be extracted was filled through the overlay
C6_OverlayAfterFailedProbe ==
    \E s \in Sessions :
        /\ loc[s].selected = NameD /\ pc[s] = "done"
        /\ Has(calls[s], "write_out") /\ Has(ui[s], "download_button")

\* the widget the claimed order gives a text: date words, then age/weight words, then
\* gender words, then yes/no/checkbox words, else the multi-line input
ByPriority(text, dates, ages, genders, bools) ==
    LET low == LowerText(text) IN
    IF AnyIn(dates, low) THEN "date_input"
    ELSE IF AnyIn(ages, low) THEN "text_input"
    ELSE IF AnyIn(genders, low) THEN "selectbox"
    ELSE IF AnyIn(bools, low) THEN "checkbox"
    ELSE "text_area"

\* C7: on both paths every field's widget is the one the claimed priority order gives
\* its name or label.
C7_ClassificationPriority ==
    \A s \in Sessions :
        LET l == loc[s] IN
        IF l.has_acro
        THEN \A name \in DOMAIN l.widgets :
               l.widgets[name] = ByPriority(name, AcroDateWords, AcroAgeWords,
                                            AcroGenderWords, AcroBoolWords)
        ELSE \A i \in DOMAIN l.chosen :
               l.widgets[FieldKey(i - 1)] =
                   ByPriority(l.chosen[i].text, LabelDateWords, LabelAgeWords,
                              AcroGenderWords, LabelBoolWords)

\* the run took the layout path and asked for a page the opened template does not have
OutOfRange(s) ==
    /\ Has(calls[s], "extract_labels_positions")
    /\ TemplateFile(loc[s].selected).plumber = "ok"
    /\ loc[s].sample_page >= NumPages(loc[s].selected)

\* C8: for a page index below 0 or not below the page count of a template,
\* extract_labels_positions returns the empty list and raises nothing, and a run that
\* asked for such a page goes on with no label, no field and no placement.
C8_OutOfRangePage ==
    /\ \A name \in Range(list_templates(templates_dir)) :
          \A page_no \in (-2..-1) \cup (NumPages(name)..(NumPages(name) + 2)) :
             \A min_chars \in MinCharsLo..MaxMinChars :
                TemplateFile(name).plumber = "ok" =>
                   extract_labels_positions(name, page_no, min_chars)
                     = [raised |-> FALSE, labels |-> <<>>]
    /\ \A s \in Sessions :
          OutOfRange(s) =>
             /\ pc[s] # "crashed" /\ ~Has(ui[s], "exception")
             /\ Has(calls[s], "label_form")
             /\ loc[s].labels = <<>> /\ loc[s].chosen = <<>>
             /\ DOMAIN loc[s].widgets = {} /\ DOMAIN loc[s].placements = {}

\* C8 witness: a run on page 1 of a one-page template went through
C8_PastTheLastPage ==
    \E s \in Sessions :
        /\ OutOfRange(s) /\ loc[s].selected = NameD /\ loc[s].sample_page = 1
        /\ pc[s] = "done"

\* the run took the layout path and asked for a page of the template that exists
InRange(s) ==
    /\ Has(calls[s], "extract_labels_positions")
    /\ loc[s].sample_page < NumPages(loc[s].selected)

\* C9: a failure while extracting an existing page never ends the run: the form
\* section is built, empty, and no exception is shown.
C9_ExtractionFailureSwallowed ==
    \A s \in Sessions :
        (InRange(s) /\ TemplateFile(loc[s].selected).pages[loc[s].sample_page + 1].extract
                         = "raises") =>
            /\ pc[s] # "crashed" /\ ~Has(ui[s], "exception")
            /\ Has(calls[s], "label_form")
            /\ loc[s].labels = <<>>

\* the step in which session s merges page i
Merges(s, i) ==
    /\ pc[s] = "overlay"
    /\ Len(loc[s].merged) = i
    /\ Len(loc'[s].merged) = i + 1

\* C10: the overlay of page i is read back from overlay_page_<i>.pdf, a name without the
\* session or the template in it: the page merged is the file as it is at the merge,
\* whoever wrote it last.
C10_MergeReadsSharedFile ==
    [][\A s \in Sessions : \A i \in 0..(NumPages(loc[s].selected) - 1) :
          Merges(s, i) =>
             /\ loc[s].overlay_paths[i + 1] = overlay_path(i)
             /\ loc'[s].merged[i + 1].draws = output_dir[overlay_path(i)][1].draws]_vars

\* the strings session s drew for page 0
OwnDraws(s) == OverlayDoc(loc[s].responses, loc[s].placements, loc[s].selected, 0)[1].draws

\* C10 witness: the PDF offered to one session shows the other session's answers
C10_ForeignAnswers ==
    \E s \in Sessions : \E u \in Sessions \ {s} :
        /\ pc[s] = "done" /\ pc[u] = "done"
        /\ ~loc[s].has_acro /\ ~loc[u].has_acro
        /\ Has(ui[s], "download_button") /\ Has(ui[u], "download_button")
        /\ loc[s].selected = loc[u].selected
        /\ loc[s].responses # loc[u].responses
        /\ loc[s].download[1].draws # OwnDraws(s)
        /\ loc[s].download[1].draws = OwnDraws(u)

====
